---------------------------- MODULE Spec2Model ----------------------------
(***************************************************************************)
(* A model of src/main.go: a proof-of-work block chain held in memory.     *)
(*                                                                         *)
(* Strings are sequences of one-character strings, so that concatenation,  *)
(* base-10 formatting, hex encoding and prefix tests are computed as the   *)
(* Go library computes them.  SHA-256 itself is replaced by a small        *)
(* deterministic digest of DigestBytes bytes (Sum below): the properties   *)
(* studied here rest on the digest being a function of the record with a   *)
(* fixed output length, not on its cryptographic strength.  The Go `int`   *)
(* nonce is a two's-complement counter of NonceBits bits.                  *)
(*                                                                         *)
(* Each call is executed by a thread in steps: the call itself, the start  *)
(* of NewBlock, one step per iteration of the loop of mineBlock, and the   *)
(* return that builds the chain or appends the block.  Spec is the          *)
(* sequential program on one chain, SpecTwoChains the same caller with two  *)
(* chains, SpecConcurrent two threads that append to one chain, and         *)
(* SpecHash calculateHash on its own.                                       *)
(***************************************************************************)
EXTENDS Integers, Sequences, FiniteSets, TLC

\* ------------------------------------------------------------------ bounds
\* Width in bits of the nonce counter (Go's int, scaled down).
NonceBits == 4
\* Length in bytes of a digest (sha256.Size, scaled down).
DigestBytes == 1
\* The longest chain the callers build.
MaxBlocks == 3
\* In the programs with two chains or two threads, calls to AddBlock start
\* only on chains shorter than this.
MaxStart == 2

\* Hex characters of a digest: hex.EncodeToString writes two per byte.
HexLen == 2 * DigestBytes
\* The difficulties handed to NewBlockchain: a negative one, none, and up to
\* one more than a digest has characters.
Difficulties == (-1) .. (HexLen + 1)
\* The values time.Now().Unix() returns.
Timestamps == {1, 12}
\* The payloads handed to AddBlock.
Payloads == { <<>>, <<"2">>, <<"A">> }
Threads == {1, 2}
ChainIds == {1, 2}
\* The thread and the chain of the sequential program.
MainThread == 1
MainChain == 1

\* ----------------------------------------------------------------- strings
\* The byte of each character the model's strings are made of.
Ascii ==
  ( " " :> 32 @@ "-" :> 45 @@
    "0" :> 48 @@ "1" :> 49 @@ "2" :> 50 @@ "3" :> 51 @@ "4" :> 52 @@
    "5" :> 53 @@ "6" :> 54 @@ "7" :> 55 @@ "8" :> 56 @@ "9" :> 57 @@
    "A" :> 65 @@ "B" :> 66 @@ "G" :> 71 @@
    "a" :> 97 @@ "b" :> 98 @@ "c" :> 99 @@ "d" :> 100 @@ "e" :> 101 @@
    "f" :> 102 @@ "i" :> 105 @@ "k" :> 107 @@ "l" :> 108 @@ "n" :> 110 @@
    "o" :> 111 @@ "s" :> 115 )

HexDigits ==
  << "0", "1", "2", "3", "4", "5", "6", "7",
     "8", "9", "a", "b", "c", "d", "e", "f" >>

RECURSIVE Pow(_, _)
Pow(b, e) == IF e = 0 THEN 1 ELSE b * Pow(b, e - 1)

\* strconv.FormatInt(n, 10) for n >= 0: the decimal digits, most significant
\* first.
RECURSIVE FormatUint(_)
FormatUint(n) ==
  IF n < 10 THEN << HexDigits[n + 1] >>
  ELSE FormatUint(n \div 10) \o << HexDigits[(n % 10) + 1] >>

\* strconv.FormatInt(n, 10) and strconv.Itoa(n): a '-' before the digits of
\* a negative number.
FormatInt(n) == IF n < 0 THEN << "-" >> \o FormatUint(-n) ELSE FormatUint(n)

Itoa(n) == FormatInt(n)

\* strings.Repeat(s, count), for count >= 0 (a negative count panics).
RECURSIVE Repeat(_, _)
Repeat(s, count) == IF count <= 0 THEN << >> ELSE s \o Repeat(s, count - 1)

\* strings.HasPrefix(s, prefix); one variant compares the lengths only, the
\* other finds no empty prefix.
HasPrefixNonEmpty(s, prefix) ==
  /\ Len(prefix) > 0
  /\ Len(s) >= Len(prefix)
  /\ SubSeq(s, 1, Len(prefix)) = prefix
HasPrefixLenOnly(s, prefix) == Len(s) >= Len(prefix)
HasPrefix(s, prefix) ==
  /\ Len(s) >= Len(prefix)
  /\ SubSeq(s, 1, Len(prefix)) = prefix

\* ------------------------------------------------------------------ digest
\* The digest of a byte string: DigestBytes bytes, as a number below
\* 256^DigestBytes.  Stands for sha256.New / Write / Sum.
RECURSIVE SumFrom(_, _, _)
SumFrom(h, record, i) ==
  IF i > Len(record) THEN h
  ELSE SumFrom(((h + Ascii[record[i]]) * 23 + 7) % Pow(256, DigestBytes),
               record, i + 1)

Sum(record) == SumFrom(113, record, 1)

\* hex.EncodeToString: two lowercase hex characters per byte, the first byte
\* first.
RECURSIVE EncodeToString(_, _)
EncodeToString(hashed, nbytes) ==
  IF nbytes = 0 THEN << >>
  ELSE EncodeToString(hashed \div 256, nbytes - 1)
       \o << HexDigits[((hashed % 256) \div 16) + 1],
             HexDigits[(hashed % 16) + 1] >>

\* The record calculateHash hashes; the variant leaves the nonce out.
RecordNoNonce(timestamp, data, prevHash, nonce) ==
  FormatInt(timestamp) \o data \o prevHash
Record(timestamp, data, prevHash, nonce) ==
  FormatInt(timestamp) \o data \o prevHash \o Itoa(nonce)

calculateHash(timestamp, data, prevHash, nonce) ==
  EncodeToString(Sum(Record(timestamp, data, prevHash, nonce)), DigestBytes)

\* ----------------------------------------------------------------- counter
\* A Go int of NonceBits bits: arithmetic wraps in two's complement.
MinInt == -Pow(2, NonceBits - 1)
MaxInt == Pow(2, NonceBits - 1) - 1
Wrap(x) == ((x - MinInt) % Pow(2, NonceBits)) + MinInt

\* nonce++ (main.go line 48); the variant that skips a value is used to test
\* the minimality property.
NextNonceSkipping(nonce) == Wrap(nonce + 2)
NextNonce(nonce) == Wrap(nonce + 1)

\* ------------------------------------------------------------------ blocks
\* The Block literal of NewBlock; one variant stores the nonce after the one
\* that was hashed, another leaves the hash unset, another the previous hash.
NewBlockNoPrev(timestamp, data, prevHash, hash, nonce) ==
  [ Timestamp |-> timestamp, Data |-> data, PrevBlockHash |-> << >>,
    Hash |-> hash, Nonce |-> nonce ]
NewBlockUnsealed(timestamp, data, prevHash, hash, nonce) ==
  [ Timestamp |-> timestamp, Data |-> data, PrevBlockHash |-> prevHash,
    Hash |-> << >>, Nonce |-> nonce ]
NewBlockStaleNonce(timestamp, data, prevHash, hash, nonce) ==
  [ Timestamp |-> timestamp, Data |-> data, PrevBlockHash |-> prevHash,
    Hash |-> hash, Nonce |-> Wrap(nonce + 1) ]
NewBlock(timestamp, data, prevHash, hash, nonce) ==
  [ Timestamp |-> timestamp, Data |-> data, PrevBlockHash |-> prevHash,
    Hash |-> hash, Nonce |-> nonce ]

GenesisData ==
  << "G", "e", "n", "e", "s", "i", "s", " ", "B", "l", "o", "c", "k" >>

\* The arguments NewGenesisBlock passes to NewBlock; the variant links the
\* genesis block to a hash.
NewGenesisBlockLinked == [ data |-> GenesisData, prevHash |-> << "0", "0" >> ]
NewGenesisBlock == [ data |-> GenesisData, prevHash |-> << >> ]

\* The Blocks slice of the Blockchain literal of NewBlockchain; the variant
\* forgets the genesis block.
GenesisBlocksEmpty(genesisBlock) == << >>
GenesisBlocks(genesisBlock) == << genesisBlock >>

\* The Difficulty field of the Blockchain literal of NewBlockchain; the
\* variant stores another value than the one the genesis block was sealed with.
ChainDifficultyOff(difficulty) == difficulty + 1
ChainDifficulty(difficulty) == difficulty

\* bc.Blocks[len(bc.Blocks)-1] of AddBlock; the variant reads the first block.
LastBlockFirst(blocks) == blocks[1]
LastBlock(blocks) == blocks[Len(blocks)]

\* append(bc.Blocks, newBlock) of AddBlock; the variant overwrites the last
\* block.
appendOverLast(blocks, newBlock) ==
  SubSeq(blocks, 1, Len(blocks) - 1) \o << newBlock >>
append(blocks, newBlock) == blocks \o << newBlock >>

\* The assignment bc.Blocks = ... of AddBlock, through the receiver bc; the
\* variant keeps one slice for all chains.
StoreBlocksShared(blocks, bc, slice) == [ c \in DOMAIN blocks |-> slice ]
StoreBlocks(blocks, bc, slice) == [ blocks EXCEPT ![bc] = slice ]

\* ------------------------------------------------------------------- state
VARIABLES
  created,     \* the chains NewBlockchain has returned
  Blocks,      \* Blocks[b]: the Blocks field of chain b
  Difficulty,  \* Difficulty[b]: the Difficulty field of chain b
  pc,          \* pc[t]: where thread t is in its call
  local,       \* local[t]: the parameters and local variables of thread t's call
  panic        \* the run-time panic that ended the program, or "none"

vars == << created, Blocks, Difficulty, pc, local, panic >>

\* The frame of a thread that is in no call.
NoCall ==
  [ op |-> "none", bc |-> 0, data |-> << >>, prevHash |-> << >>,
    difficulty |-> 0, timestamp |-> 0, nonce |-> 0, target |-> << >>,
    hash |-> << >>, slice |-> << >>, record |-> << >> ]

Init ==
  /\ created = { }
  /\ Blocks = [ b \in ChainIds |-> << >> ]
  /\ Difficulty = [ b \in ChainIds |-> 0 ]
  /\ pc = [ t \in Threads |-> "idle" ]
  /\ local = [ t \in Threads |-> NoCall ]
  /\ panic = "none"

\* ----------------------------------------------------------------- actions
\* Thread t calls NewBlockchain(difficulty) for the chain that will be b:
\* NewGenesisBlock calls NewBlock("Genesis Block", "", difficulty).
CallNewBlockchain(t, b, difficulty) ==
  /\ panic = "none"
  /\ pc[t] = "idle"
  /\ b \notin created
  /\ \A u \in Threads : local[u].bc # b
  /\ pc' = [ pc EXCEPT ![t] = "NewBlock" ]
  /\ local' = [ local EXCEPT ![t] =
        [ NoCall EXCEPT !.op = "NewBlockchain", !.bc = b,
                        !.data = NewGenesisBlock.data,
                        !.prevHash = NewGenesisBlock.prevHash,
                        !.difficulty = difficulty ] ]
  /\ UNCHANGED << created, Blocks, Difficulty, panic >>

\* Thread t calls bc.AddBlock(data) on chain b: it reads the last block and
\* calls NewBlock(data, prevBlock.Hash, bc.Difficulty).  Indexing an empty
\* slice panics.
CallAddBlock(t, b, data) ==
  /\ panic = "none"
  /\ pc[t] = "idle"
  /\ b \in created
  /\ Len(Blocks[b]) < MaxBlocks
  /\ IF Len(Blocks[b]) = 0
     THEN /\ panic' = "index out of range"
          /\ UNCHANGED << pc, local >>
     ELSE /\ pc' = [ pc EXCEPT ![t] = "NewBlock" ]
          /\ local' = [ local EXCEPT ![t] =
                [ NoCall EXCEPT !.op = "AddBlock", !.bc = b, !.data = data,
                                !.prevHash = LastBlock(Blocks[b]).Hash,
                                !.difficulty = Difficulty[b] ] ]
          /\ UNCHANGED panic
  /\ UNCHANGED << created, Blocks, Difficulty >>

\* NewBlock reads the clock and enters mineBlock, which sets nonce to 0 and
\* builds the target; strings.Repeat panics on a negative count.
NewBlockBegin(t, timestamp) ==
  /\ panic = "none"
  /\ pc[t] = "NewBlock"
  /\ IF local[t].difficulty < 0
     THEN /\ panic' = "strings: negative Repeat count"
          /\ UNCHANGED << pc, local >>
     ELSE /\ pc' = [ pc EXCEPT ![t] = "mine" ]
          /\ local' = [ local EXCEPT ![t].timestamp = timestamp,
                                      ![t].nonce = 0,
                                      ![t].target = Repeat(<< "0" >>, local[t].difficulty) ]
          /\ UNCHANGED panic
  /\ UNCHANGED << created, Blocks, Difficulty >>

\* One iteration of the loop of mineBlock: hash with the current nonce and
\* return the pair if the hash has the target as a prefix, else increment.
MineIter(t) ==
  /\ panic = "none"
  /\ pc[t] = "mine"
  /\ LET hash == calculateHash(local[t].timestamp, local[t].data,
                               local[t].prevHash, local[t].nonce)
     IN IF HasPrefix(hash, local[t].target)
        THEN /\ pc' = [ pc EXCEPT ![t] = "sealed" ]
             /\ local' = [ local EXCEPT ![t].hash = hash ]
        ELSE /\ local' = [ local EXCEPT ![t].nonce = NextNonce(local[t].nonce) ]
             /\ UNCHANGED pc
  /\ UNCHANGED << created, Blocks, Difficulty, panic >>

\* The block NewBlock returns to thread t once mineBlock has returned.
SealedBlock(t) ==
  NewBlock(local[t].timestamp, local[t].data, local[t].prevHash,
           local[t].hash, local[t].nonce)

\* NewBlockchain returns the chain that holds the genesis block.
ReturnNewBlockchain(t) ==
  /\ panic = "none"
  /\ pc[t] = "sealed"
  /\ local[t].op = "NewBlockchain"
  /\ created' = created \cup { local[t].bc }
  /\ Blocks' = [ Blocks EXCEPT ![local[t].bc] = GenesisBlocks(SealedBlock(t)) ]
  /\ Difficulty' = [ Difficulty EXCEPT ![local[t].bc] =
                       ChainDifficulty(local[t].difficulty) ]
  /\ pc' = [ pc EXCEPT ![t] = "idle" ]
  /\ local' = [ local EXCEPT ![t] = NoCall ]
  /\ UNCHANGED panic

\* AddBlock appends the block NewBlock returned and returns.
AppendBlock(t) ==
  /\ panic = "none"
  /\ pc[t] = "sealed"
  /\ local[t].op = "AddBlock"
  /\ Blocks' = StoreBlocks(Blocks, local[t].bc,
                          append(Blocks[local[t].bc], SealedBlock(t)))
  /\ pc' = [ pc EXCEPT ![t] = "idle" ]
  /\ local' = [ local EXCEPT ![t] = NoCall ]
  /\ UNCHANGED << created, Difficulty, panic >>

\* The same statement of AddBlock as two steps, for callers that run at the
\* same time: the slice append(bc.Blocks, newBlock) is computed from the
\* Blocks read in one step and assigned to bc.Blocks in the next.  The
\* statement holds no lock, so another thread may write bc.Blocks in between.
AppendRead(t) ==
  /\ panic = "none"
  /\ pc[t] = "sealed"
  /\ local[t].op = "AddBlock"
  /\ pc' = [ pc EXCEPT ![t] = "append" ]
  /\ local' = [ local EXCEPT ![t].slice =
                   append(Blocks[local[t].bc], SealedBlock(t)) ]
  /\ UNCHANGED << created, Blocks, Difficulty, panic >>

AppendWrite(t) ==
  /\ panic = "none"
  /\ pc[t] = "append"
  /\ Blocks' = StoreBlocks(Blocks, local[t].bc, local[t].slice)
  /\ pc' = [ pc EXCEPT ![t] = "idle" ]
  /\ local' = [ local EXCEPT ![t] = NoCall ]
  /\ UNCHANGED << created, Difficulty, panic >>

\* ---------------------------------------------------------- specifications
\* The sequential program: one thread, one chain.
Next ==
  \/ \E difficulty \in Difficulties :
       CallNewBlockchain(MainThread, MainChain, difficulty)
  \/ \E data \in Payloads : CallAddBlock(MainThread, MainChain, data)
  \/ \E timestamp \in Timestamps : NewBlockBegin(MainThread, timestamp)
  \/ MineIter(MainThread)
  \/ ReturnNewBlockchain(MainThread)
  \/ AppendBlock(MainThread)

Spec == Init /\ [][Next]_vars

\* The same program with the thread always scheduled: a call that can take a
\* step eventually takes it.
FairSpec ==
  /\ Spec
  /\ WF_vars(\E timestamp \in Timestamps : NewBlockBegin(MainThread, timestamp))
  /\ WF_vars(MineIter(MainThread))
  /\ WF_vars(ReturnNewBlockchain(MainThread))
  /\ WF_vars(AppendBlock(MainThread))

\* The sequential program with two chains: the thread creates both and
\* appends to either, one call at a time.
NextTwoChains ==
  \/ \E b \in ChainIds, difficulty \in Difficulties :
       CallNewBlockchain(MainThread, b, difficulty)
  \/ \E b \in ChainIds, data \in Payloads :
       Len(Blocks[b]) < MaxStart /\ CallAddBlock(MainThread, b, data)
  \/ \E timestamp \in Timestamps : NewBlockBegin(MainThread, timestamp)
  \/ MineIter(MainThread)
  \/ ReturnNewBlockchain(MainThread)
  \/ AppendBlock(MainThread)

SpecTwoChains == Init /\ [][NextTwoChains]_vars

\* One chain, created by the main thread, and two threads that call AddBlock
\* on it with nothing to keep their calls apart.
NextConcurrent ==
  \/ \E difficulty \in Difficulties :
       CallNewBlockchain(MainThread, MainChain, difficulty)
  \/ \E t \in Threads, data \in Payloads :
       Len(Blocks[MainChain]) < MaxStart /\ CallAddBlock(t, MainChain, data)
  \/ \E t \in Threads, timestamp \in Timestamps : NewBlockBegin(t, timestamp)
  \/ \E t \in Threads : MineIter(t)
  \/ ReturnNewBlockchain(MainThread)
  \/ \E t \in Threads : AppendRead(t)
  \/ \E t \in Threads : AppendWrite(t)

SpecConcurrent == Init /\ [][NextConcurrent]_vars

\* calculateHash on its own.  The arguments it is called with: a timestamp, a
\* nonce, and either the genesis data with the empty previous hash or the data
\* of an appended block with the hash of a block.
HashInputs ==
  { in \in [ timestamp : Timestamps,
             data : Payloads \cup { GenesisData },
             prevHash : { << >> } \cup
                        { calculateHash(ts, GenesisData, << >>, 0) :
                            ts \in Timestamps },
             nonce : MinInt .. MaxInt ] :
      (in.prevHash = << >>) <=> (in.data = GenesisData) }

InitHash ==
  /\ created = { }
  /\ Blocks = [ b \in ChainIds |-> << >> ]
  /\ Difficulty = [ b \in ChainIds |-> 0 ]
  /\ panic = "none"
  /\ pc = [ t \in Threads |-> IF t = MainThread THEN "calculateHash" ELSE "idle" ]
  /\ \E in \in HashInputs :
       local = [ t \in Threads |->
                 IF t = MainThread
                 THEN [ NoCall EXCEPT !.op = "calculateHash",
                                      !.timestamp = in.timestamp,
                                      !.data = in.data,
                                      !.prevHash = in.prevHash,
                                      !.nonce = in.nonce ]
                 ELSE NoCall ]

\* calculateHash builds the record, hashes it and returns the hex string.
CalculateHash(t) ==
  /\ pc[t] = "calculateHash"
  /\ LET record == Record(local[t].timestamp, local[t].data,
                          local[t].prevHash, local[t].nonce)
     IN  local' = [ local EXCEPT ![t].record = record,
                                 ![t].hash = EncodeToString(Sum(record), DigestBytes) ]
  /\ pc' = [ pc EXCEPT ![t] = "hashed" ]
  /\ UNCHANGED << created, Blocks, Difficulty, panic >>

NextHash == CalculateHash(MainThread)

SpecHash == InitHash /\ [][NextHash]_vars

\* ------------------------------------------------------------- properties
\* The number of '0' characters a string starts with.
RECURSIVE LeadingZeros(_)
LeadingZeros(s) ==
  IF s = << >> \/ Head(s) # "0" THEN 0 ELSE 1 + LeadingZeros(Tail(s))

\* The digest of a block's stored fields.
Recomputed(block) ==
  calculateHash(block.Timestamp, block.Data, block.PrevBlockHash, block.Nonce)

\* The nonces mineBlock tries before nonce, counting up from 0 and wrapping.
CountedBefore(nonce) ==
  { Wrap(k) : k \in 0 .. ((nonce % Pow(2, NonceBits)) - 1) }

\* Whether nonce is the first one, counting up from 0, whose digest of the
\* content has difficulty leading zeros.
FirstHit(difficulty, timestamp, data, prevHash, nonce) ==
  /\ LeadingZeros(calculateHash(timestamp, data, prevHash, nonce)) >= difficulty
  /\ \A m \in CountedBefore(nonce) :
       LeadingZeros(calculateHash(timestamp, data, prevHash, m)) < difficulty

\* Thread t returns from AddBlock on chain b in the step.
AddBlockReturns(t, b) ==
  /\ pc[t] = "sealed" /\ local[t].op = "AddBlock" /\ local[t].bc = b
  /\ pc'[t] = "idle"

\* C1 (Linkage): in every state reached by NewBlockchain followed by
\* sequential AddBlock calls, every block after the first has PrevBlockHash
\* equal to the Hash of the block before it.
Linkage ==
  \A b \in created : \A i \in 2 .. Len(Blocks[b]) :
    Blocks[b][i].PrevBlockHash = Blocks[b][i - 1].Hash

\* A chain of three blocks with pairwise different hashes.
LinkageWitness ==
  \E b \in created :
    /\ Len(Blocks[b]) = 3
    /\ Blocks[b][1].Hash # Blocks[b][2].Hash
    /\ Blocks[b][3].PrevBlockHash = Blocks[b][2].Hash

\* C2 (Proof-of-work validity): every block of a chain, genesis included, has
\* a Hash that starts with at least Difficulty '0' characters, and the
\* difficulty of a chain is not negative.
ProofOfWorkValid ==
  \A b \in created :
    /\ Difficulty[b] >= 0
    /\ \A i \in 1 .. Len(Blocks[b]) :
         LeadingZeros(Blocks[b][i].Hash) >= Difficulty[b]

\* A chain of difficulty 2 holding a mined block after the genesis block.
ProofOfWorkWitness ==
  \E b \in created :
    /\ Difficulty[b] = 2
    /\ Len(Blocks[b]) >= 2
    /\ \E i \in 1 .. Len(Blocks[b]) : Blocks[b][i].Nonce # 0

\* C3 (Recomputability): for every block of a chain, calculateHash of the
\* stored Timestamp, Data, PrevBlockHash and Nonce is the stored Hash.
Recomputable ==
  \A b \in created : \A i \in 1 .. Len(Blocks[b]) :
    Recomputed(Blocks[b][i]) = Blocks[b][i].Hash

\* A chain whose second block was sealed after several iterations.
RecomputableWitness ==
  \E b \in created :
    /\ Len(Blocks[b]) >= 2
    /\ Blocks[b][2].Nonce > 1
    /\ Blocks[b][1].Timestamp # Blocks[b][2].Timestamp

\* C4 (Append-only growth): a step that returns from AddBlock makes Blocks one
\* longer, every other step leaves Blocks as it is, and the blocks that were in
\* the chain stay at their index with all their fields.
AppendOnlyGrowth ==
  [][ \A b \in created :
        /\ b \in created'
        /\ Len(Blocks'[b]) >= Len(Blocks[b])
        /\ SubSeq(Blocks'[b], 1, Len(Blocks[b])) = Blocks[b]
        /\ IF \E t \in Threads : AddBlockReturns(t, b)
           THEN Len(Blocks'[b]) = Len(Blocks[b]) + 1
           ELSE Blocks'[b] = Blocks[b] ]_vars

\* A chain that has grown to the longest length by two AddBlock calls.
AppendOnlyGrowthWitness ==
  \E b \in created :
    /\ Len(Blocks[b]) = MaxBlocks
    /\ \A t \in Threads : pc[t] = "idle"

\* C5 (Minimal nonce, determinism): while mineBlock searches, no nonce counted
\* before the current one has a digest with difficulty leading zeros; the pair
\* it returns is the current nonce and its digest, which has them, and no
\* smaller non-negative nonce does; two searches over the same difficulty and
\* content (those of two blocks of a chain, or of a block and the running
\* call) return the same pair.
MinimalNonce ==
  /\ \A t \in Threads :
       /\ pc[t] = "mine" =>
            \A m \in CountedBefore(local[t].nonce) :
              LeadingZeros(calculateHash(local[t].timestamp, local[t].data,
                                         local[t].prevHash, m))
                < local[t].difficulty
       /\ pc[t] = "sealed" =>
            /\ FirstHit(local[t].difficulty, local[t].timestamp, local[t].data,
                        local[t].prevHash, local[t].nonce)
            /\ local[t].hash = calculateHash(local[t].timestamp, local[t].data,
                                             local[t].prevHash, local[t].nonce)
            /\ \A m \in 0 .. (local[t].nonce - 1) :
                 LeadingZeros(calculateHash(local[t].timestamp, local[t].data,
                                            local[t].prevHash, m))
                   < local[t].difficulty
            /\ \A i \in 1 .. Len(Blocks[local[t].bc]) :
                 LET block == Blocks[local[t].bc][i]
                 IN  ( /\ local[t].bc \in created
                       /\ block.Timestamp = local[t].timestamp
                       /\ block.Data = local[t].data
                       /\ block.PrevBlockHash = local[t].prevHash )
                     => /\ block.Nonce = local[t].nonce
                        /\ block.Hash = local[t].hash
  /\ \A b \in created : \A i, j \in 1 .. Len(Blocks[b]) :
       ( /\ Blocks[b][i].Timestamp = Blocks[b][j].Timestamp
         /\ Blocks[b][i].Data = Blocks[b][j].Data
         /\ Blocks[b][i].PrevBlockHash = Blocks[b][j].PrevBlockHash )
       => Blocks[b][i] = Blocks[b][j]

\* mineBlock has returned a nonce it reached after several iterations.
MinimalNonceWitness ==
  \E t \in Threads :
    /\ pc[t] = "sealed"
    /\ local[t].difficulty >= 1
    /\ local[t].nonce >= 2

\* C6 (Genesis): the step in which NewBlockchain returns leaves a chain of
\* exactly one block, and in every state the first block of a chain has the
\* Data "Genesis Block" and the empty PrevBlockHash.
GenesisFirst ==
  /\ [] ( \A b \in created :
            /\ Len(Blocks[b]) >= 1
            /\ Blocks[b][1].Data = GenesisData
            /\ Blocks[b][1].PrevBlockHash = << >> )
  /\ [][ \A b \in ChainIds :
           (b \notin created /\ b \in created') => Len(Blocks'[b]) = 1 ]_vars

\* A chain to which blocks were appended after the genesis block.
GenesisFirstWitness ==
  \E b \in created :
    /\ Len(Blocks[b]) = 3
    /\ Blocks[b][1].Data = GenesisData
    /\ Blocks[b][2].Data # GenesisData

\* C7 (Mining always completes): for every difficulty d >= 0, however large,
\* the search of mineBlock eventually returns and the call completes.  The
\* searches that only the narrowed counter keeps from a hit (no nonce of
\* NonceBits bits has a digest with d <= HexLen leading zeros) are left out.
MiningCompletes ==
  \A t \in Threads :
    ( /\ pc[t] = "mine"
      /\ local[t].difficulty >= 0
      /\ \/ local[t].difficulty > HexLen
         \/ \E n \in MinInt .. MaxInt :
              HasPrefix(calculateHash(local[t].timestamp, local[t].data,
                                      local[t].prevHash, n), local[t].target) )
    ~> (pc[t] = "idle")

\* The block a thread's return adds to chain b is sealed and linked.
SealedAndLinked(b) ==
  LET old == Blocks[b]
      new == Blocks'[b]
      block == new[Len(new)]
  IN  /\ Len(new) = Len(old) + 1
      /\ SubSeq(new, 1, Len(old)) = old
      /\ block.Hash = Recomputed(block)
      /\ LeadingZeros(block.Hash) >= Difficulty'[b]
      /\ block.PrevBlockHash = old[Len(old)].Hash
      /\ FirstHit(Difficulty'[b], block.Timestamp, block.Data,
                  block.PrevBlockHash, block.Nonce)

\* C8 (Atomic append): while AddBlock searches for a nonce every step leaves
\* Blocks as it was; Blocks changes only in the step in which AddBlock
\* returns, and the block that step adds has its final Hash, Nonce and
\* PrevBlockHash: it is recomputable, meets the difficulty and is linked to
\* the block that was last.
AtomicAppend ==
  [][ \A b \in created :
        \/ Blocks'[b] = Blocks[b]
        \/ /\ \E t \in Threads :
                /\ AddBlockReturns(t, b)
                /\ Blocks'[b][Len(Blocks'[b])].Hash = local[t].hash
                /\ Blocks'[b][Len(Blocks'[b])].Nonce = local[t].nonce
                /\ Blocks'[b][Len(Blocks'[b])].PrevBlockHash = local[t].prevHash
           /\ SealedAndLinked(b) ]_vars

\* AddBlock is in the middle of its search on a chain that holds two blocks.
AtomicAppendWitness ==
  \E t \in Threads :
    /\ pc[t] = "mine"
    /\ local[t].op = "AddBlock"
    /\ local[t].nonce > 0
    /\ Len(Blocks[local[t].bc]) = 2

\* C9 (Never empty): a chain NewBlockchain returned holds at least one block
\* in every state, and the read of the last block in AddBlock never panics.
NeverEmpty ==
  /\ \A b \in created : Len(Blocks[b]) >= 1
  /\ panic # "index out of range"

\* AddBlock has read the last block of a chain holding only the genesis block.
NeverEmptyWitness ==
  \E t \in Threads :
    /\ pc[t] = "NewBlock"
    /\ local[t].op = "AddBlock"
    /\ Len(Blocks[local[t].bc]) = 1
    /\ local[t].prevHash = Blocks[local[t].bc][1].Hash

\* C10 (Fixed difficulty): the Difficulty of a chain is the value passed to
\* NewBlockchain, no step changes it, AddBlock seals with it, and the nonce of
\* every block is the first that meets exactly that difficulty.
FixedDifficulty ==
  /\ [] ( /\ \A b \in created : \A i \in 1 .. Len(Blocks[b]) :
               FirstHit(Difficulty[b], Blocks[b][i].Timestamp, Blocks[b][i].Data,
                        Blocks[b][i].PrevBlockHash, Blocks[b][i].Nonce)
          /\ \A t \in Threads :
               local[t].op = "AddBlock" =>
                 /\ local[t].difficulty = Difficulty[local[t].bc]
                 /\ pc[t] \in { "mine", "sealed" } =>
                      local[t].target = Repeat(<< "0" >>, Difficulty[local[t].bc]) )
  /\ [][ /\ \A b \in created : b \in created' /\ Difficulty'[b] = Difficulty[b]
         /\ \A t \in Threads :
              (pc[t] = "sealed" /\ local[t].op = "NewBlockchain" /\ pc'[t] = "idle")
              => /\ local[t].bc \in created'
                 /\ Difficulty'[local[t].bc] = local[t].difficulty ]_vars

\* A chain of difficulty 1 to which a block was appended.
FixedDifficultyWitness ==
  \E b \in created :
    /\ Difficulty[b] = 1
    /\ Len(Blocks[b]) = 2
    /\ \A t \in Threads : pc[t] = "idle"

\* C11 (Negative difficulty is rejected): a call that was handed a negative
\* difficulty ends in an error outcome without the target being built: the
\* program does not panic in strings.Repeat, and no chain is produced.
NegativeDifficultyRejected ==
  /\ panic # "strings: negative Repeat count"
  /\ \A b \in created : Difficulty[b] >= 0

\* C12 (Difficulty 0 fast path): with difficulty 0 the first iteration of
\* mineBlock returns; the nonce is never incremented, and the pair returned
\* is nonce 0 and the digest of the content with nonce 0.
DifficultyZeroFastPath ==
  /\ [] ( \A t \in Threads :
            (pc[t] \in { "mine", "sealed" } /\ local[t].difficulty = 0) =>
              /\ local[t].nonce = 0
              /\ pc[t] = "sealed" =>
                   local[t].hash = calculateHash(local[t].timestamp, local[t].data,
                                                 local[t].prevHash, 0) )
  /\ [][ \A t \in Threads :
           (pc[t] = "mine" /\ local[t].difficulty = 0 /\ local'[t] # local[t])
             => pc'[t] = "sealed" ]_vars

\* AddBlock on a chain of difficulty 0 has its pair after one iteration.
DifficultyZeroWitness ==
  \E t \in Threads :
    /\ pc[t] = "sealed"
    /\ local[t].op = "AddBlock"
    /\ local[t].difficulty = 0
    /\ local[t].nonce = 0
    /\ LeadingZeros(local[t].hash) = 0

\* C13 (Non-negative nonce): every nonce mineBlock hashes or returns, and
\* every Nonce stored in a block, is >= 0: the counter of NonceBits bits never
\* carries the search onto wrapped values.
NonNegativeNonce ==
  /\ \A t \in Threads : pc[t] \in { "mine", "sealed" } => local[t].nonce >= 0
  /\ \A b \in created : \A i \in 1 .. Len(Blocks[b]) : Blocks[b][i].Nonce >= 0

\* C14 (Chain isolation): every step of an AddBlock call on one chain, from
\* the call through the whole search to the append, leaves every other chain
\* as it was: its Blocks, with every field of every block, and its Difficulty.
ChainIsolation ==
  [][ \A t \in Threads : \A b \in ChainIds :
        ( \/ local[t].op = "AddBlock" /\ local[t].bc = b
          \/ local'[t].op = "AddBlock" /\ local'[t].bc = b )
        => \A c \in created \ { b } :
             /\ c \in created'
             /\ Blocks'[c] = Blocks[c]
             /\ Difficulty'[c] = Difficulty[c] ]_vars

\* AddBlock has appended to one chain while the other chain, of another
\* difficulty, holds blocks of its own.
ChainIsolationWitness ==
  \E b, c \in created :
    /\ b # c
    /\ Len(Blocks[b]) = 2
    /\ Len(Blocks[c]) = 2
    /\ Blocks[b][2].Nonce # 0
    /\ Difficulty[b] # Difficulty[c]
    /\ Blocks[b] # Blocks[c]

\* Some block of the chain has a PrevBlockHash that is not the Hash of the
\* block before it.
LinkageBroken(blocks) ==
  \E i \in 2 .. Len(blocks) : blocks[i].PrevBlockHash # blocks[i - 1].Hash

\* A later value of a chain holds its blocks, in place, and more after them.
Extends(later, blocks) ==
  /\ Len(blocks) < Len(later)
  /\ SubSeq(later, 1, Len(blocks)) = blocks

\* C15 (Exclusive ownership is required for linkage): AddBlock appends the
\* block it sealed with the hash it read at the call, whatever was appended
\* since.  When another call's append has changed the last hash between the
\* read and the append, the append leaves a chain that holds a block whose
\* PrevBlockHash is not its predecessor's Hash, or that does not extend the
\* chain it replaces: a block another call appended is lost or stands in for
\* this one, and the chain grew by fewer blocks than calls have returned.
\* Calls that overlap reach such states.
ExclusiveOwnershipNeeded ==
  [][ \A t \in Threads :
        (pc[t] = "append" /\ pc'[t] = "idle") =>
          LET b == local[t].bc
              new == Blocks'[b]
          IN  /\ new = local[t].slice
              /\ new[Len(new)].PrevBlockHash = local[t].prevHash
              /\ new[Len(new)].Hash = local[t].hash
              /\ LastBlock(Blocks[b]).Hash # local[t].prevHash =>
                   \/ LinkageBroken(new)
                   \/ ~Extends(new, Blocks[b]) ]_vars

\* Two calls that overlapped have both returned: the chain holds three blocks
\* and the two appended ones carry the hash of the genesis block, which is not
\* the hash of the second block.
ExclusiveOwnershipWitness ==
  /\ \A t \in Threads : pc[t] = "idle"
  /\ MainChain \in created
  /\ Len(Blocks[MainChain]) = 3
  /\ Blocks[MainChain][2].PrevBlockHash = Blocks[MainChain][1].Hash
  /\ Blocks[MainChain][3].PrevBlockHash = Blocks[MainChain][1].Hash
  /\ Blocks[MainChain][3].PrevBlockHash # Blocks[MainChain][2].Hash

\* The value of a decimal digit.
DigitValue(c) == CHOOSE v \in 0 .. 9 : HexDigits[v + 1] = c

\* Whether a string is one or more decimal digits.
IsDigits(str) ==
  /\ Len(str) >= 1
  /\ \A i \in 1 .. Len(str) : \E v \in 0 .. 9 : HexDigits[v + 1] = str[i]

RECURSIVE DigitsValue(_)
DigitsValue(str) ==
  IF Len(str) = 0 THEN 0
  ELSE 10 * DigitsValue(SubSeq(str, 1, Len(str) - 1)) + DigitValue(str[Len(str)])

\* Whether a string is the base-10 text of the integer n.
IsBase10(str, n) ==
  IF Len(str) >= 1 /\ str[1] = "-"
  THEN /\ IsDigits(Tail(str))
       /\ n < 0
       /\ DigitsValue(Tail(str)) = -n
  ELSE /\ IsDigits(str)
       /\ DigitsValue(str) = n

\* Whether record is the base-10 text of the timestamp followed by the data,
\* the previous hash and the base-10 text of the nonce.
InOrder(record, in) ==
  \E k \in 1 .. Len(record) :
    LET d == k + Len(in.data)
        p == d + Len(in.prevHash)
    IN  /\ p < Len(record)
        /\ IsBase10(SubSeq(record, 1, k), in.timestamp)
        /\ SubSeq(record, k + 1, d) = in.data
        /\ SubSeq(record, d + 1, p) = in.prevHash
        /\ IsBase10(SubSeq(record, p + 1, Len(record)), in.nonce)

\* The arguments of thread t's call of calculateHash.
Arguments(t) ==
  [ timestamp |-> local[t].timestamp, data |-> local[t].data,
    prevHash |-> local[t].prevHash, nonce |-> local[t].nonce ]

\* The number of characters of the base-10 text of n.
RECURSIVE Base10Len(_)
Base10Len(n) ==
  IF n < 0 THEN 1 + Base10Len(-n)
  ELSE IF n < 10 THEN 1 ELSE 1 + Base10Len(n \div 10)

\* Two argument tuples whose first three fields take the same room in the
\* record.
SameLayout(in, other) ==
  /\ Base10Len(in.timestamp) = Base10Len(other.timestamp)
  /\ Len(in.data) = Len(other.data)
  /\ Len(in.prevHash) = Len(other.prevHash)

\* C16 as stated (Canonical encoding identifies the block): the record is the
\* four fields in order, and field tuples that differ in any field have
\* different records.
EncodingInjective ==
  \A t \in Threads :
    pc[t] = "hashed" =>
      /\ InOrder(local[t].record, Arguments(t))
      /\ \A other \in HashInputs :
           other # Arguments(t) =>
             Record(other.timestamp, other.data, other.prevHash, other.nonce)
               # local[t].record

\* C16 as amended: the record is the four fields in order, and field tuples
\* that differ in any field have different records when the base-10
\* timestamps, the data and the previous hashes have the same lengths in both.
EncodingInjectiveSameLayout ==
  \A t \in Threads :
    pc[t] = "hashed" =>
      /\ InOrder(local[t].record, Arguments(t))
      /\ \A other \in HashInputs :
           (other # Arguments(t) /\ SameLayout(Arguments(t), other)) =>
             Record(other.timestamp, other.data, other.prevHash, other.nonce)
               # local[t].record

\* calculateHash has hashed a record with a negative nonce, and other tuples
\* of the same layout differ from its own in the timestamp, the data, the
\* previous hash or the nonce.
EncodingWitness ==
  \E t \in Threads :
    /\ pc[t] = "hashed"
    /\ local[t].nonce < 0
    /\ local[t].data = << "2" >>
    /\ Len(local[t].prevHash) = HexLen
    /\ \E o1, o2, o3 \in HashInputs :
         /\ SameLayout(Arguments(t), o1) /\ o1.data # local[t].data
         /\ SameLayout(Arguments(t), o2) /\ o2.prevHash # local[t].prevHash
         /\ SameLayout(Arguments(t), o3) /\ o3.nonce # local[t].nonce

=============================================================================
